---- MODULE Spec2Model ----
(***************************************************************************)
(* A model of the EPG time adjuster (src/src/xml_handler.py), the          *)
(* single-channel processing method (src/src/processor.py), the channel    *)
(* search and the exit code of the command line front end (src/run.py) and *)
(* the catalog extraction (src/scripts/generate_workflow.py).              *)
(*                                                                         *)
(* Text is modelled as a sequence of one-character strings, so that        *)
(* parsing, formatting, case folding, substring and prefix tests are       *)
(* computed character by character.  Python's None is the value None.      *)
(***************************************************************************)
EXTENDS Integers, Sequences, FiniteSets, TLC

VARIABLES
    padYear,              \* the build: does strftime("%Y") zero-pad the year to 4 digits
    source,               \* the programme elements of the input document (file on disk)
    tree,                 \* the programme elements of the parsed tree being adjusted
    before,               \* history: tree as it was when the last operation was called
    comment,              \* the comment node process_xml inserts at the root, if any
    output,               \* the output file: whether written, and its programme elements
    channel_offsets,      \* XmlTimeAdjuster.channel_offsets / config['channels']
    default_offset,       \* XmlTimeAdjuster.default_offset / config['default_offset']
    processed_programmes, \* XmlTimeAdjuster.processed_programmes
    processed_channels,   \* XmlTimeAdjuster.processed_channels
    errors,               \* XmlTimeAdjuster.errors
    stats,                \* ScheduleProcessor.stats
    last,                 \* history: the last operation, its arguments and its outcome
    runs,                 \* number of operations performed so far
    time_str,             \* codec chain: the attribute text the chain started from
    offset_seconds,       \* codec chain: the offset of the chain
    attr,                 \* codec chain: the attribute text as it is now
    dt,                   \* codec chain: parse_datetime's result
    adjusted_dt,          \* codec chain: dt + timedelta(seconds=offset_seconds)
    formatted,            \* codec chain: format_datetime(adjusted_dt)
    reparsed,             \* codec chain: parse_datetime(formatted)
    pc,                   \* codec chain: position in the chain
    channels,             \* channel search: the catalog, a list of {id, name}
    search_term,          \* channel search: the term looked for
    suggest_limit,        \* channel search: the limit given to suggest_channels
    found,                \* channel search: find_channel's result
    suggestions,          \* channel search: suggest_channels' result
    rpc,                  \* channel search: what has been computed
    channel_elements,     \* the channel elements of the input document
    exit_code             \* run.py: the exit code of the process, once it has exited

varsAdjuster == <<source, tree, before, comment, output, channel_offsets,
                  default_offset, processed_programmes, processed_channels,
                  errors, stats, last, runs>>
varsCodec == <<time_str, offset_seconds, attr, dt, adjusted_dt, formatted,
               reparsed, pc>>
varsResolve == <<channels, search_term, suggest_limit, found, suggestions, rpc>>
varsMain == <<channel_elements, exit_code>>
vars == <<padYear, varsAdjuster, varsCodec, varsResolve, varsMain>>

(***************************************************************************)
(* Bounds of the model.                                                    *)
(***************************************************************************)
MaxProgs == 2
MaxRuns == 2
MaxCatalog == 3
MaxLimit == 2
MaxElems == 2

(***************************************************************************)
(* Characters and text.                                                    *)
(***************************************************************************)
None == <<"None">>
NoDatetime == <<>>
OverflowError == <<-1>>

DigitChars == <<"0", "1", "2", "3", "4", "5", "6", "7", "8", "9">>
DigitSet == {"0", "1", "2", "3", "4", "5", "6", "7", "8", "9"}
Chr(n) == DigitChars[n + 1]
DigitVal(c) ==
    CASE c = "0" -> 0 [] c = "1" -> 1 [] c = "2" -> 2 [] c = "3" -> 3 [] c = "4" -> 4
      [] c = "5" -> 5 [] c = "6" -> 6 [] c = "7" -> 7 [] c = "8" -> 8 [] c = "9" -> 9
Txt(ds) == [i \in 1..Len(ds) |-> Chr(ds[i])]
Truthy(s) == s # None /\ s # <<>>
Contains(s, c) == \E i \in 1..Len(s) : s[i] = c

(***************************************************************************)
(* datetime: a pair <<ordinal, second of day>>; ordinal 1 is 0001-01-01.   *)
(* The calendar arithmetic is that of Python's datetime module, which      *)
(* xml_handler.py imports and relies on.                                   *)
(***************************************************************************)
IsLeap(y) == y % 4 = 0 /\ (y % 100 # 0 \/ y % 400 = 0)
DaysInMonth(y, m) ==
    IF m = 2 THEN (IF IsLeap(y) THEN 29 ELSE 28)
    ELSE IF m \in {4, 6, 9, 11} THEN 30 ELSE 31
DaysBeforeYear(y) ==
    LET p == y - 1 IN p * 365 + (p \div 4) - (p \div 100) + (p \div 400)
DaysBeforeMonthTable == <<0, 31, 59, 90, 120, 151, 181, 212, 243, 273, 304, 334>>
DaysBeforeMonth(y, m) ==
    DaysBeforeMonthTable[m] + (IF m > 2 /\ IsLeap(y) THEN 1 ELSE 0)
YmdToOrd(y, m, d) == DaysBeforeYear(y) + DaysBeforeMonth(y, m) + d
MinOrdinal == YmdToOrd(1, 1, 1)
MaxOrdinal == YmdToOrd(9999, 12, 31)

OrdToYmd(ord) ==
    LET n0 == ord - 1
        n400 == n0 \div 146097
        r400 == n0 % 146097
        n100 == r400 \div 36524
        r100 == r400 % 36524
        n4 == r100 \div 1461
        r4 == r100 % 1461
        n1 == r4 \div 365
        r1 == r4 % 365
        year == n400 * 400 + 1 + n100 * 100 + n4 * 4 + n1
    IN  IF n1 = 4 \/ n100 = 4
        THEN <<year - 1, 12, 31>>
        ELSE LET guess == (r1 + 50) \div 32
                 month == IF DaysBeforeMonth(year, guess) > r1 THEN guess - 1 ELSE guess
             IN <<year, month, r1 - DaysBeforeMonth(year, month) + 1>>

(***************************************************************************)
(* datetime.strptime(dt_part, "%Y%m%d%H%M%S").  strptime compiles the      *)
(* format to a regular expression: four digits for the year, and for each  *)
(* later field its two-digit form or else one digit; the first match in    *)
(* that order of preference is taken, it must consume the whole text, and  *)
(* the datetime constructor then validates the fields.                     *)
(***************************************************************************)
FieldLo2(k) == IF k \in {1, 2} THEN 1 ELSE 0
FieldHi2(k) == CASE k = 1 -> 12 [] k = 2 -> 31 [] k = 3 -> 23 [] k = 4 -> 59 [] OTHER -> 61
IsDigitAt(s, i) == i >= 1 /\ i <= Len(s) /\ s[i] \in DigitSet
Val2(s, i) == 10 * DigitVal(s[i]) + DigitVal(s[i + 1])
Fits2(s, i, k) ==
    /\ IsDigitAt(s, i) /\ IsDigitAt(s, i + 1)
    /\ Val2(s, i) >= FieldLo2(k) /\ Val2(s, i) <= FieldHi2(k)
Fits1(s, i, k) == IsDigitAt(s, i) /\ DigitVal(s[i]) >= FieldLo2(k)
NoMatch == [ok |-> FALSE, vals |-> <<>>, end |-> 0]
RECURSIVE MatchFields(_, _, _)
MatchFields(s, pos, k) ==
    IF k > 5 THEN [ok |-> TRUE, vals |-> <<>>, end |-> pos]
    ELSE LET two == IF Fits2(s, pos, k) THEN MatchFields(s, pos + 2, k + 1) ELSE NoMatch
             one == IF Fits1(s, pos, k) THEN MatchFields(s, pos + 1, k + 1) ELSE NoMatch
         IN  IF two.ok
             THEN [ok |-> TRUE, vals |-> <<Val2(s, pos)>> \o two.vals, end |-> two.end]
             ELSE IF one.ok
             THEN [ok |-> TRUE, vals |-> <<DigitVal(s[pos])>> \o one.vals, end |-> one.end]
             ELSE NoMatch
Strptime(s) ==
    IF ~(\A i \in 1..4 : IsDigitAt(s, i)) THEN NoDatetime
    ELSE LET y == 1000 * DigitVal(s[1]) + 100 * DigitVal(s[2])
                  + 10 * DigitVal(s[3]) + DigitVal(s[4])
             f == MatchFields(s, 5, 1)
         IN  IF ~f.ok \/ f.end # Len(s) + 1 THEN NoDatetime
             ELSE IF y < 1 \/ f.vals[2] > DaysInMonth(y, f.vals[1]) \/ f.vals[5] > 59
             THEN NoDatetime
             ELSE <<YmdToOrd(y, f.vals[1], f.vals[2]),
                    f.vals[3] * 3600 + f.vals[4] * 60 + f.vals[5]>>

(***************************************************************************)
(* dt + timedelta(seconds=offset_seconds): exact addition; a result        *)
(* outside 0001-01-01 .. 9999-12-31 raises OverflowError.                  *)
(***************************************************************************)
Shift(d, o) ==
    LET total == d[2] + o
        ord == d[1] + (total \div 86400)
    IN  IF ord < MinOrdinal \/ ord > MaxOrdinal THEN OverflowError
        ELSE <<ord, total % 86400>>

(***************************************************************************)
(* parse_datetime: the text before the first space is handed to strptime;  *)
(* a ValueError is logged and becomes None (here NoDatetime).              *)
(***************************************************************************)
ZoneUTC == <<" ", "+", "0", "0", "0", "0">>
ZonePlus1 == <<" ", "+", "0", "1", "0", "0">>
BeforeSpace(s) ==
    LET spaces == {i \in 1..Len(s) : s[i] = " "}
    IN  IF spaces = {} THEN s
        ELSE SubSeq(s, 1, (CHOOSE i \in spaces : \A j \in spaces : i <= j) - 1)
\* A variant that reads the zone marker and converts the time to UTC.
parse_datetime_zone_aware(dt_str) ==
    LET d == Strptime(BeforeSpace(dt_str))
        zone == SubSeq(dt_str, Len(BeforeSpace(dt_str)) + 1, Len(dt_str))
        utc == IF zone = ZonePlus1 THEN Shift(d, -3600) ELSE d
    IN  IF d = NoDatetime \/ utc = OverflowError THEN NoDatetime ELSE utc
parse_datetime(dt_str) ==
    LET dt_part == IF Contains(dt_str, " ") THEN BeforeSpace(dt_str) ELSE dt_str
    IN Strptime(dt_part)

(***************************************************************************)
(* format_datetime: strftime("%Y%m%d%H%M%S +0000").  Month, day, hour,     *)
(* minute and second are zero-padded to two digits.  The year is written   *)
(* by the platform's strftime: padded to four digits on some builds, in    *)
(* plain decimal on others (glibc with CPython before 3.13).               *)
(***************************************************************************)
Pad2(n) == <<Chr(n \div 10), Chr(n % 10)>>
Pad4(n) == <<Chr(n \div 1000), Chr((n \div 100) % 10), Chr((n \div 10) % 10), Chr(n % 10)>>
RECURSIVE Decimal(_)
Decimal(n) == IF n < 10 THEN <<Chr(n)>> ELSE Decimal(n \div 10) \o <<Chr(n % 10)>>
format_datetime(d, pad) ==
    LET ymd == OrdToYmd(d[1])
        sec == d[2]
    IN  (IF pad THEN Pad4(ymd[1]) ELSE Decimal(ymd[1]))
        \o Pad2(ymd[2]) \o Pad2(ymd[3])
        \o Pad2(sec \div 3600) \o Pad2((sec \div 60) % 60) \o Pad2(sec % 60)
        \o ZoneUTC

(***************************************************************************)
(* _adjust_time: None when the text does not parse, and None when the      *)
(* addition raises (the except clause logs a warning).                     *)
(***************************************************************************)
_adjust_time(s, o, pad) ==
    LET d == parse_datetime(s)
        adjusted == Shift(d, o)
    IN  IF d = NoDatetime THEN None
        ELSE IF adjusted = OverflowError THEN None
        ELSE format_datetime(adjusted, pad)

(***************************************************************************)
(* Inputs.  Channel ids, attribute texts, programme elements, offsets and  *)
(* configurations the operations are exercised on.                         *)
(***************************************************************************)
ChA == <<"a">>
ChB == <<"b">>
ChQuote == <<"a", "'", "b">>
ChInject == <<"a", "'", "]", "[", "@", "c", "h", "a", "n", "n", "e", "l", "=", "'", "a">>
ChannelIds == {ChA, ChQuote}
ScopeIds == ChannelIds \cup {ChInject, None}

T_Noon == Txt(<<2, 0, 2, 4, 0, 1, 0, 1, 1, 2, 0, 0, 0, 0>>)
T_One == Txt(<<2, 0, 2, 4, 0, 1, 0, 1, 1, 3, 0, 0, 0, 0>>)
T_Max == Txt(<<9, 9, 9, 9, 1, 2, 3, 1, 2, 3, 5, 9, 5, 9>>)
T_Y1000 == Txt(<<1, 0, 0, 0, 0, 1, 0, 1, 0, 0, 0, 0, 0, 0>>)
T_Feb30 == Txt(<<2, 0, 2, 4, 0, 2, 3, 0, 0, 0, 0, 0, 0, 0>>)
T_Bad == <<"n", "o", "t", "a", "d", "a", "t", "e">>
T_Min == Txt(<<0, 0, 0, 1, 0, 1, 0, 1, 0, 0, 0, 0, 0, 0>>)
T_Two == Txt(<<0, 0, 0, 1, 0, 1, 0, 1, 0, 2, 0, 0, 0, 0>>)

\* A programme element: its channel, start and stop attributes, and the rest
\* of it (other attributes and children), which no operation reads.
Payload == <<"t", "i", "t", "l", "e">>
Prog(c, s, e) == [channel |-> c, start |-> s, stop |-> e, payload |-> Payload]
Programmes == <<
    Prog(ChB, T_Bad \o ZonePlus1, T_Max \o ZoneUTC),
    Prog(ChA, T_Noon \o ZonePlus1, T_One),
    Prog(ChB, T_Y1000 \o ZonePlus1, T_Feb30 \o ZonePlus1),
    Prog(ChA, None, None),
    Prog(None, T_Noon \o ZonePlus1, T_One),
    Prog(ChQuote, T_Min, T_Two) >>

\* The documents: up to MaxProgs of the programme elements, in the order above.
RECURSIVE Pick(_)
Pick(S) ==
    IF S = {} THEN <<>>
    ELSE LET i == CHOOSE x \in S : \A y \in S : x <= y
         IN <<Programmes[i]>> \o Pick(S \ {i})
Documents == {Pick(S) : S \in {T \in SUBSET DOMAIN Programmes : Cardinality(T) <= MaxProgs}}

NoOffsets == [c \in {} |-> [offset |-> 0]]
OffsetsAB == [c \in {ChA, ChB} |-> IF c = ChA THEN [offset |-> -86400]
                                   ELSE [description |-> <<"b">>]]
Config(c, d) == [channels |-> c, default_offset |-> d]
Configs == {Config(NoOffsets, 30), Config(OffsetsAB, 30), Config(OffsetsAB, -3600)}
LegacyOffsets == {-3600}

\* A channel element: its id attribute (None when absent), whether it has a
\* display-name child, and that child's text (None when it has no text).
Elem(i, d, t) == [id |-> i, display_name |-> d, text |-> t]
GuideChannels == <<Elem(ChB, TRUE, <<"S">>), Elem(ChA, TRUE, <<"x">>)>>

(***************************************************************************)
(* XmlTimeAdjuster.adjust_times, lines 96-98: the offset for a channel.    *)
(***************************************************************************)
EffectiveOffsetDefaultOnly(channel_id, offsets, default) == default
EffectiveOffset(channel_id, offsets, default) ==
    IF channel_id \in DOMAIN offsets /\ "offset" \in DOMAIN offsets[channel_id]
    THEN offsets[channel_id].offset
    ELSE default

(***************************************************************************)
(* "if start_time: new = _adjust_time(...); if new: programme.set(...)":   *)
(* the attribute after the adjustment of one time attribute.               *)
(***************************************************************************)
SetAlways(old, new) == new
SetIfAdjusted(old, new) == IF new # None THEN new ELSE old
AdjustAttribute(old, o, pad) ==
    IF Truthy(old) THEN SetIfAdjusted(old, _adjust_time(old, o, pad)) ELSE old

(***************************************************************************)
(* root.findall(f".//programme[@channel='{channel_id}']"): the indices of  *)
(* the programme elements the path selects.  The id is pasted into the     *)
(* path between apostrophes.  For an id without an apostrophe the path     *)
(* selects the programmes whose channel attribute equals the id.  An       *)
(* apostrophe inside the id ends the quoted value early and the rest of    *)
(* the id is read as path syntax: when it is a further predicate on the    *)
(* channel attribute, ][@channel='V, the path is well-formed and selects   *)
(* the programmes that satisfy both predicates; the other texts used here  *)
(* make the predicate ill-formed, which ElementTree rejects with           *)
(* SyntaxError.                                                            *)
(***************************************************************************)
SyntaxError == {-1}
FurtherChannelPredicate == <<"]", "[", "@", "c", "h", "a", "n", "n", "e", "l", "=", "'">>
FindallChannel(progs, channel_id) ==
    IF ~Contains(channel_id, "'")
    THEN {i \in DOMAIN progs : progs[i].channel = channel_id}
    ELSE LET q == CHOOSE i \in 1..Len(channel_id) :
                      channel_id[i] = "'" /\ \A j \in 1..(i - 1) : channel_id[j] # "'"
             first == SubSeq(channel_id, 1, q - 1)
             rest == SubSeq(channel_id, q + 1, Len(channel_id))
             n == Len(FurtherChannelPredicate)
             second == SubSeq(rest, n + 1, Len(rest))
         IN  IF Len(rest) >= n /\ SubSeq(rest, 1, n) = FurtherChannelPredicate
                /\ ~Contains(second, "'")
             THEN {i \in DOMAIN progs :
                      progs[i].channel = first /\ progs[i].channel = second}
             ELSE SyntaxError

(***************************************************************************)
(* XmlTimeAdjuster.adjust_times on the programme elements progs.           *)
(***************************************************************************)
SelectProgrammes(progs, specific_channel) ==
    IF Truthy(specific_channel) THEN FindallChannel(progs, specific_channel)
    ELSE DOMAIN progs
\* A variant that also passes over a programme with neither start nor stop.
SkipsUntimedProgramme(p) == ~Truthy(p.channel) \/ (~Truthy(p.start) /\ ~Truthy(p.stop))
SkipsProgramme(p) == ~Truthy(p.channel)
AdjustProgramme(p, offsets, default, pad) ==
    IF SkipsProgramme(p) THEN p
    ELSE LET o == EffectiveOffset(p.channel, offsets, default)
         IN [p EXCEPT !.start = AdjustAttribute(p.start, o, pad),
                      !.stop = AdjustAttribute(p.stop, o, pad)]
adjust_times(progs, specific_channel, offsets, default, pad) ==
    LET sel == SelectProgrammes(progs, specific_channel)
    IN  IF sel = SyntaxError
        THEN [raised |-> TRUE, progs |-> progs, programmes |-> 0, channels |-> {}]
        ELSE LET done == {i \in sel : ~SkipsProgramme(progs[i])}
             IN [raised |-> FALSE,
                 progs |-> [i \in DOMAIN progs |->
                               IF i \in sel THEN AdjustProgramme(progs[i], offsets, default, pad)
                               ELSE progs[i]],
                 programmes |-> Cardinality(done),
                 channels |-> {progs[i].channel : i \in done}]

(***************************************************************************)
(* XmlTimeAdjuster.adjust_program_times on one programme element.          *)
(***************************************************************************)
adjust_program_times(program, o, pad) ==
    [program |-> [program EXCEPT !.start = AdjustAttribute(program.start, o, pad),
                                 !.stop = AdjustAttribute(program.stop, o, pad)],
     programmes |-> 1,
     channels |-> {}]

(***************************************************************************)
(* The state after construction.                                           *)
(***************************************************************************)
NoStats == [processed_channels |-> 0, processed_programmes |-> 0,
            channels_processed |-> <<>>, errors_count |-> 0]
NoChannel == [id |-> None, name |-> None]
NoComment == [programmes |-> -1]
NoOutput == [written |-> FALSE, programmes |-> <<>>]
NoExit == -1
NoOperation == [op |-> "none", specific |-> None, index |-> 0, offset |-> 0,
                result |-> "none", programmes0 |-> 0, channels0 |-> {}]
CodecIdle ==
    /\ time_str = None /\ offset_seconds = 0 /\ attr = None
    /\ dt = NoDatetime /\ adjusted_dt = NoDatetime /\ formatted = None
    /\ reparsed = NoDatetime /\ pc = "idle"

ResolveIdle ==
    /\ channels = <<>> /\ search_term = <<>> /\ suggest_limit = 0 /\ found = NoChannel
    /\ suggestions = <<>> /\ rpc = {}
MainIdle == channel_elements = <<>> /\ exit_code = NoExit
AdjusterIdle ==
    /\ source = <<>> /\ tree = <<>> /\ before = <<>> /\ comment = NoComment
    /\ output = NoOutput /\ channel_offsets = NoOffsets /\ default_offset = 30
    /\ processed_programmes = 0 /\ processed_channels = {} /\ errors = <<>>
    /\ stats = NoStats /\ last = NoOperation /\ runs = 0

Init ==
    /\ padYear \in BOOLEAN
    /\ source \in Documents
    /\ tree = source
    /\ before = source
    /\ comment = NoComment
    /\ output = NoOutput
    /\ \E c \in Configs : channel_offsets = c.channels /\ default_offset = c.default_offset
    /\ processed_programmes = 0
    /\ processed_channels = {}
    /\ errors = <<>>
    /\ stats = NoStats
    /\ last = NoOperation
    /\ runs = 0
    /\ CodecIdle
    /\ ResolveIdle
    /\ channel_elements = GuideChannels
    /\ exit_code = NoExit

(***************************************************************************)
(* adjuster.adjust_times(tree, specific_channel) on the parsed tree.       *)
(***************************************************************************)
AdjustTimes(specific_channel) ==
    LET r == adjust_times(tree, specific_channel, channel_offsets, default_offset, padYear)
    IN  /\ runs < MaxRuns
        /\ runs' = runs + 1
        /\ before' = tree
        /\ tree' = r.progs
        /\ processed_programmes' = processed_programmes + r.programmes
        /\ processed_channels' = processed_channels \cup r.channels
        /\ last' = [op |-> "adjust_times", specific |-> specific_channel, index |-> 0,
                    offset |-> 0,
                    result |-> IF r.raised THEN "SyntaxError" ELSE "ok",
                    programmes0 |-> processed_programmes,
                    channels0 |-> processed_channels]
        /\ UNCHANGED <<padYear, source, comment, output, channel_offsets, default_offset,
                       errors, stats, varsCodec, varsResolve, varsMain>>

(***************************************************************************)
(* adjuster.adjust_program_times(tree[i], offset): the legacy operation.   *)
(***************************************************************************)
AdjustProgramTimes(i, o) ==
    LET r == adjust_program_times(tree[i], o, padYear)
    IN  /\ runs < MaxRuns
        /\ i \in DOMAIN tree
        /\ runs' = runs + 1
        /\ before' = tree
        /\ tree' = [tree EXCEPT ![i] = r.program]
        /\ processed_programmes' = processed_programmes + r.programmes
        /\ processed_channels' = processed_channels \cup r.channels
        /\ last' = [op |-> "adjust_program_times", specific |-> None, index |-> i,
                    offset |-> o, result |-> "ok",
                    programmes0 |-> processed_programmes,
                    channels0 |-> processed_channels]
        /\ UNCHANGED <<padYear, source, comment, output, channel_offsets, default_offset,
                       errors, stats, varsCodec, varsResolve, varsMain>>

(***************************************************************************)
(* ScheduleProcessor.process_single_channel(channel_id).                   *)
(***************************************************************************)
ProcessSingleChannelBody(channel_id) ==
    LET programmes == FindallChannel(source, channel_id)
        offset == EffectiveOffset(channel_id, channel_offsets, default_offset)
        r == adjust_times(source, channel_id, channel_offsets, default_offset, padYear)
        op(result, p0, c0) == [op |-> "process_single_channel", specific |-> channel_id,
                               index |-> 0, offset |-> offset, result |-> result,
                               programmes0 |-> p0, channels0 |-> c0]
    IN  /\ runs < MaxRuns
        /\ runs' = runs + 1
        /\ before' = source
        /\ IF programmes = SyntaxError
           THEN /\ tree' = source
                /\ stats' = [stats EXCEPT !.errors_count = @ + 1]
                /\ last' = op("SyntaxError", processed_programmes, processed_channels)
                /\ UNCHANGED <<processed_programmes, processed_channels, errors, output>>
           ELSE IF programmes = {}
           THEN /\ tree' = source
                /\ last' = op("returned", processed_programmes, processed_channels)
                /\ UNCHANGED <<processed_programmes, processed_channels, errors, output,
                               stats>>
           ELSE /\ tree' = r.progs
                /\ processed_programmes' = r.programmes
                /\ processed_channels' = r.channels
                /\ errors' = <<>>
                /\ output' = [written |-> TRUE, programmes |-> r.progs]
                /\ stats' = [stats EXCEPT
                       !.processed_channels = 1,
                       !.processed_programmes = Cardinality(programmes),
                       !.channels_processed = Append(@,
                           [channel_id |-> channel_id,
                            programmes_count |-> Cardinality(programmes),
                            offset_applied |-> offset])]
                /\ last' = op("ok", 0, {})
        /\ UNCHANGED <<padYear, source, comment, channel_offsets, default_offset>>
ProcessSingleChannel(channel_id) ==
    /\ ProcessSingleChannelBody(channel_id)
    /\ UNCHANGED <<varsCodec, varsResolve, varsMain>>

(***************************************************************************)
(* XmlTimeAdjuster.process_xml(input, output, channel_offsets,             *)
(* default_offset): the whole document, with the comment and the write.    *)
(***************************************************************************)
XmlArgs == {<<None, 30>>, <<<<ChB, 3600>>, -3600>>}
ProcessXml(offsets_arg, default_arg) ==
    LET offsets == IF offsets_arg = None THEN channel_offsets
                   ELSE [c \in {offsets_arg[1]} |-> [offset |-> offsets_arg[2]]]
        r == adjust_times(source, None, offsets, default_arg, padYear)
    IN  /\ runs < MaxRuns
        /\ runs' = runs + 1
        /\ channel_offsets' = offsets
        /\ default_offset' = default_arg
        /\ before' = source
        /\ tree' = r.progs
        /\ processed_programmes' = processed_programmes + r.programmes
        /\ processed_channels' = processed_channels \cup r.channels
        /\ comment' = [programmes |-> processed_programmes']
        /\ output' = [written |-> TRUE, programmes |-> r.progs]
        /\ last' = [op |-> "process_xml", specific |-> None, index |-> 0, offset |-> 0,
                    result |-> "ok", programmes0 |-> processed_programmes,
                    channels0 |-> processed_channels]
        /\ UNCHANGED <<padYear, source, errors, stats, varsCodec, varsResolve, varsMain>>

Next ==
    \/ \E c \in ScopeIds : AdjustTimes(c)
    \/ \E i \in 1..MaxProgs, o \in LegacyOffsets : AdjustProgramTimes(i, o)
    \/ \E c \in ChannelIds : ProcessSingleChannel(c)
    \/ \E a \in XmlArgs : ProcessXml(a[1], a[2])

Spec == Init /\ [][Next]_vars

(***************************************************************************)
(* Properties of the adjustment operations.                                *)
(***************************************************************************)
Fields == {"start", "stop"}
Other(f) == IF f = "start" THEN "stop" ELSE "start"
BulkRun ==
    /\ last.op \in {"adjust_times", "process_single_channel", "process_xml"}
    /\ last.result = "ok"
\* Programme i was processed by the last bulk run.
ProcessedBy(i) ==
    /\ i \in DOMAIN before
    /\ Truthy(before[i].channel)
    /\ Truthy(last.specific) => before[i].channel = last.specific
\* The offset the configuration gives channel c, read from c's own entry only.
ClaimOffset(c) ==
    LET own == [k \in DOMAIN channel_offsets \cap {c} |-> channel_offsets[k]]
    IN  IF c \in DOMAIN own /\ "offset" \in DOMAIN own[c]
        THEN own[c].offset
        ELSE default_offset
Unparsable(t) == t # None /\ parse_datetime(t) = NoDatetime
Parses(t) == t # None /\ parse_datetime(t) # NoDatetime
Overflows(t, o) == Parses(t) /\ Shift(parse_datetime(t), o) = OverflowError
ShiftedBy(old, new, o) ==
    LET d == parse_datetime(old)
        shifted == Shift(d, o)
    IN  /\ old # None /\ d # NoDatetime /\ shifted # OverflowError
        /\ new = format_datetime(shifted, padYear)
\* The text of an attribute after an adjustment by o: rewritten when it
\* parses and the shifted time is representable, as it was otherwise.
ExpectedText(old, o) ==
    LET d == parse_datetime(old)
        shifted == Shift(d, o)
    IN  IF old = None \/ d = NoDatetime \/ shifted = OverflowError THEN old
        ELSE format_datetime(shifted, padYear)
EndsWithUTC(t) == Len(t) >= 6 /\ SubSeq(t, Len(t) - 5, Len(t)) = ZoneUTC
CountChannel(progs, c) == Cardinality({i \in DOMAIN progs : progs[i].channel = c})

\* C1: every programme a bulk run processed has its start and stop adjusted
\* by the offset of the configuration entry keyed by exactly its channel id
\* when that entry carries one, by the default offset otherwise; and the
\* offset process_single_channel reports as applied is that same offset.
C1_OffsetByExactChannel ==
    BulkRun =>
        /\ \A i \in DOMAIN before : ProcessedBy(i) =>
              \A f \in Fields :
                  tree[i][f] = ExpectedText(before[i][f], ClaimOffset(before[i].channel))
        /\ last.op = "process_single_channel" =>
              stats.channels_processed[Len(stats.channels_processed)].offset_applied
                  = ClaimOffset(last.specific)
C1_Witness ==
    /\ BulkRun
    /\ \E i, j \in DOMAIN before :
          /\ ProcessedBy(i) /\ ProcessedBy(j)
          /\ before[i].channel \in DOMAIN channel_offsets
          /\ ClaimOffset(before[i].channel) # default_offset
          /\ tree[i].start # before[i].start
          /\ before[j].channel \notin DOMAIN channel_offsets
          /\ tree[j].start # before[j].start

\* C2: after an adjustment run restricted to one channel id, started with
\* fresh statistics, the reported count of processed programmes is the
\* number of programme elements whose channel attribute is that id.
C2_ProcessedEqualsCount ==
    /\ (last.op = "adjust_times" /\ Truthy(last.specific) /\ last.programmes0 = 0)
          => processed_programmes = CountChannel(before, last.specific)
    /\ (last.op = "process_single_channel" /\ last.result = "ok")
          => /\ processed_programmes = CountChannel(before, last.specific)
             /\ stats.processed_programmes = CountChannel(before, last.specific)

\* C3 as stated: an attribute of a processed programme that does not parse is
\* left as it was, the programme's other time attribute is shifted if it
\* parses, the programme is counted, and the rest are processed.
CountedAll ==
    processed_programmes - last.programmes0
        = Cardinality({i \in DOMAIN before : ProcessedBy(i)})
OthersProcessed(i) ==
    \A j \in DOMAIN before : (j # i /\ ProcessedBy(j)) =>
        \A g \in Fields :
            tree[j][g] = ExpectedText(before[j][g], ClaimOffset(before[j].channel))
C4_EmptySelectionIsNoOp ==
    (/\ last.op \in {"adjust_times", "process_single_channel"}
     /\ Truthy(last.specific)
     /\ CountChannel(before, last.specific) = 0)
        => /\ last.result \in {"ok", "returned"}
           /\ processed_programmes = last.programmes0
           /\ tree = before

\* C9 as stated: after a bulk run every start and stop attribute of a
\* processed programme ends with the zone marker +0000.
C9_Original ==
    BulkRun =>
        \A i \in DOMAIN before : \A f \in Fields :
            (ProcessedBy(i) /\ tree[i][f] # None) => EndsWithUTC(tree[i][f])
\* C9 as amended: every start and stop attribute the run rewrites ends with
\* +0000 and is determined by the text before the first space and the
\* offset, whatever zone marker follows; an attribute that does not parse, or
\* whose shifted time is out of range, keeps its text, zone marker included.
C9_RewrittenCarryUTC ==
    BulkRun =>
        \A i \in DOMAIN before : \A f \in Fields :
            (ProcessedBy(i) /\ before[i][f] # None) =>
                LET old == before[i][f]
                    o == ClaimOffset(before[i].channel)
                    d == Strptime(BeforeSpace(old))
                    shifted == Shift(d, o)
                IN  IF d # NoDatetime /\ shifted # OverflowError
                    THEN /\ tree[i][f] = format_datetime(shifted, padYear)
                         /\ EndsWithUTC(tree[i][f])
                    ELSE tree[i][f] = old
C9_Witness ==
    /\ BulkRun
    /\ \E i \in DOMAIN before :
          /\ ProcessedBy(i)
          /\ Contains(before[i].start, " ")
          /\ ~EndsWithUTC(before[i].start)
          /\ Parses(before[i].start)
          /\ EndsWithUTC(tree[i].start)
          /\ Unparsable(before[i].stop)
          /\ Truthy(before[i].stop)
          /\ ~EndsWithUTC(tree[i].stop)

\* C10: the legacy adjustment of one programme with an explicit offset gives
\* the same attributes and the same change of the statistics as the bulk
\* path run on that programme with a configuration resolving to the offset.
C10_LegacyEqualsBulk ==
    last.op = "adjust_program_times" =>
        LET bulk == adjust_times(<<before[last.index]>>, None, NoOffsets, last.offset, padYear)
        IN  /\ tree[last.index] = bulk.progs[1]
            /\ processed_programmes - last.programmes0 = bulk.programmes
            /\ processed_channels = last.channels0 \cup bulk.channels

(***************************************************************************)
(* XmlTimeAdjuster.get_processing_stats: the statistics as the caller      *)
(* reads them after a run.                                                 *)
(***************************************************************************)
get_processing_stats ==
    [channels_processed |-> Cardinality(processed_channels),
     programs_processed |-> processed_programmes,
     errors_count |-> Len(errors),
     errors |-> errors]

\* The programmes the last bulk run processed, and their channels.
RunProgrammes == {i \in DOMAIN before : ProcessedBy(i)}
RunChannels == {before[i].channel : i \in RunProgrammes}

\* C12: the statistics read after a run describe that run only: the count is
\* the number of programmes the run processed, the channel set is the set of
\* their channels, and no error message of an earlier run is listed.
C12_StatsDescribeLastRun ==
    BulkRun =>
        /\ processed_programmes = Cardinality(RunProgrammes)
        /\ processed_channels = RunChannels
        /\ get_processing_stats.programs_processed = Cardinality(RunProgrammes)
        /\ get_processing_stats.channels_processed = Cardinality(RunChannels)
        /\ get_processing_stats.errors_count <= 2 * Cardinality(RunProgrammes)

\* The time attributes the last bulk run read that did not parse.
MalformedFields ==
    {<<i, f>> \in RunProgrammes \X Fields :
        Truthy(before[i][f]) /\ parse_datetime(before[i][f]) = NoDatetime}

\* C13: every start or stop attribute that fails to parse during a run adds
\* a message to the errors list, so the error count read after the run is at
\* least the number of malformed attributes the run met.
C13_MalformedFieldsRecorded ==
    BulkRun => get_processing_stats.errors_count >= Cardinality(MalformedFields)

\* A run restricted to one channel id.
OneChannelRun ==
    last.op \in {"adjust_times", "process_single_channel"} /\ Truthy(last.specific)
OnlySelectedTimesChange ==
    OneChannelRun =>
        /\ DOMAIN tree = DOMAIN before
        /\ \A i \in DOMAIN before :
              /\ tree[i].channel = before[i].channel
              /\ tree[i].payload = before[i].payload
              /\ before[i].channel # last.specific => tree[i] = before[i]
\* C14: a run for one channel id c changes nothing but the start and stop
\* attributes of the programmes whose channel is c: the programmes of the
\* other channels, the channel attribute and the rest of every programme,
\* the number of programmes and the channel elements stay as they were.
C14_OneChannelFrame ==
    /\ []OnlySelectedTimesChange
    /\ [][channel_elements' = channel_elements]_vars
\* A run over all channels that started with fresh statistics.
FreshAllRun ==
    /\ last.op \in {"adjust_times", "process_xml"}
    /\ ~Truthy(last.specific)
    /\ last.result = "ok"
    /\ last.programmes0 = 0 /\ last.channels0 = {}
WithChannel == {i \in DOMAIN before : before[i].channel # None /\ before[i].channel # <<>>}

\* C16 as stated: after a run over all channels that started with fresh
\* statistics the count is the number of programme elements of the document
\* and the channel set is the set of their channel ids.
C16_Original ==
    FreshAllRun =>
        /\ processed_programmes = Len(before)
        /\ processed_channels = {before[i].channel : i \in WithChannel}
\* C16 as amended: the count is the number of programme elements that carry a
\* non-empty channel attribute and the channel set is the set of their ids;
\* such an element is counted whether or not it has start and stop, and an
\* element without a channel attribute is skipped and not counted.
C16_AllWithChannelCounted ==
    FreshAllRun =>
        /\ processed_programmes = Cardinality(WithChannel)
        /\ processed_channels = {before[i].channel : i \in WithChannel}
C16_Witness ==
    /\ FreshAllRun
    /\ processed_programmes = 1
    /\ \E i, j \in DOMAIN before :
          /\ i \in WithChannel
          /\ before[i].start = None /\ before[i].stop = None
          /\ before[i].channel \in processed_channels
          /\ j \notin WithChannel

\* The programmes the last operation processed, bulk or legacy.
Adjusted(i) ==
    \/ BulkRun /\ ProcessedBy(i)
    \/ last.op = "adjust_program_times" /\ i = last.index
\* stop minus start as <<days, seconds>>, and start <= stop.
Duration(p) ==
    LET a == parse_datetime(p.start)
        b == parse_datetime(p.stop)
    IN  IF b[2] >= a[2] THEN <<b[1] - a[1], b[2] - a[2]>>
        ELSE <<b[1] - a[1] - 1, b[2] - a[2] + 86400>>
InOrder(p) == Duration(p)[1] >= 0

\* C18: for every processed programme whose start and stop both parse, stop
\* minus start after the operation equals stop minus start before it, and a
\* programme with start <= stop before still has start <= stop after.
C18_DurationPreserved ==
    \A i \in DOMAIN before :
        (Adjusted(i) /\ Parses(before[i].start) /\ Parses(before[i].stop)) =>
            /\ Parses(tree[i].start) /\ Parses(tree[i].stop)
            /\ Duration(tree[i]) = Duration(before[i])
            /\ InOrder(before[i]) => InOrder(tree[i])

(***************************************************************************)
(* The timestamp codec on its own: the steps of _adjust_time taken one at  *)
(* a time on one text and one offset, and the adjustment of one attribute  *)
(* by an offset and then by the opposite offset.                           *)
(***************************************************************************)
T_Short == Txt(<<2, 0, 2, 4, 1, 1, 1, 1, 2, 0, 0, 0>>)
TimeTexts == {T_Noon \o ZonePlus1, T_Noon, T_One \o ZoneUTC, T_Short, T_Max \o ZoneUTC,
              T_Min, T_Y1000 \o ZonePlus1, T_Feb30, T_Bad, <<>>}
CodecOffsets == {0, 30, -3600, 172801, -172801}

CodecInit ==
    /\ padYear \in BOOLEAN
    /\ time_str \in TimeTexts
    /\ offset_seconds \in CodecOffsets
    /\ attr = time_str
    /\ dt = NoDatetime /\ adjusted_dt = NoDatetime /\ formatted = None
    /\ reparsed = NoDatetime
    /\ pc = "start"
    /\ AdjusterIdle
    /\ ResolveIdle
    /\ MainIdle

ParseStep ==
    /\ pc = "start"
    /\ dt' = parse_datetime(time_str)
    /\ pc' = IF dt' = NoDatetime THEN "unparsed" ELSE "parsed"
    /\ UNCHANGED <<padYear, varsAdjuster, varsResolve, varsMain, time_str, offset_seconds, attr,
                   adjusted_dt, formatted, reparsed>>
ShiftStep ==
    /\ pc = "parsed"
    /\ adjusted_dt' = Shift(dt, offset_seconds)
    /\ pc' = IF adjusted_dt' = OverflowError THEN "overflow" ELSE "shifted"
    /\ UNCHANGED <<padYear, varsAdjuster, varsResolve, varsMain, time_str, offset_seconds, attr,
                   dt, formatted, reparsed>>
FormatStep ==
    /\ pc = "shifted"
    /\ formatted' = format_datetime(adjusted_dt, padYear)
    /\ pc' = "formatted"
    /\ UNCHANGED <<padYear, varsAdjuster, varsResolve, varsMain, time_str, offset_seconds, attr,
                   dt, adjusted_dt, reparsed>>
ReparseStep ==
    /\ pc = "formatted"
    /\ reparsed' = parse_datetime(formatted)
    /\ pc' = "reparsed"
    /\ UNCHANGED <<padYear, varsAdjuster, varsResolve, varsMain, time_str, offset_seconds, attr,
                   dt, adjusted_dt, formatted>>
AdjustForward ==
    /\ pc = "start"
    /\ attr' = AdjustAttribute(attr, offset_seconds, padYear)
    /\ pc' = "forward"
    /\ UNCHANGED <<padYear, varsAdjuster, varsResolve, varsMain, time_str, offset_seconds,
                   dt, adjusted_dt, formatted, reparsed>>
AdjustBack ==
    /\ pc = "forward"
    /\ attr' = AdjustAttribute(attr, -offset_seconds, padYear)
    /\ pc' = "back"
    /\ UNCHANGED <<padYear, varsAdjuster, varsResolve, varsMain, time_str, offset_seconds,
                   dt, adjusted_dt, formatted, reparsed>>

CodecNext ==
    \/ ParseStep
    \/ ShiftStep
    \/ FormatStep
    \/ ReparseStep
    \/ AdjustForward
    \/ AdjustBack

SpecCodec == CodecInit /\ [][CodecNext]_vars

(***************************************************************************)
(* Channel search (run.py): find_channel and suggest_channels.             *)
(***************************************************************************)
\* str.lower() on the characters the catalog entries and search terms are made of.
LowerChar(c) == CASE c = "S" -> "s" [] c = "X" -> "x" [] OTHER -> c
Lower(s) == [i \in 1..Len(s) |-> LowerChar(s[i])]
IsSubstring(a, b) ==
    \E k \in 0..(Len(b) - Len(a)) : SubSeq(b, k + 1, k + Len(a)) = a
StartsWith(b, a) == Len(a) <= Len(b) /\ SubSeq(b, 1, Len(a)) = a
FirstIndex(S) == CHOOSE i \in S : \A j \in S : i <= j

find_channel_single_pass(term, catalog) ==
    LET search_lower == Lower(term)
        hit == {i \in DOMAIN catalog :
                   \/ IsSubstring(search_lower, Lower(catalog[i].id))
                   \/ IsSubstring(search_lower, Lower(catalog[i].name))}
    IN IF hit # {} THEN catalog[FirstIndex(hit)] ELSE NoChannel
\* A variant that stops after the two exact tiers.
find_channel_exact_only(term, catalog) ==
    LET search_lower == Lower(term)
        exact_id == {i \in DOMAIN catalog : Lower(catalog[i].id) = search_lower}
        exact_name == {i \in DOMAIN catalog : Lower(catalog[i].name) = search_lower}
    IN  IF exact_id # {} THEN catalog[FirstIndex(exact_id)]
        ELSE IF exact_name # {} THEN catalog[FirstIndex(exact_name)]
        ELSE NoChannel
find_channel(term, catalog) ==
    LET search_lower == Lower(term)
        exact_id == {i \in DOMAIN catalog : Lower(catalog[i].id) = search_lower}
        exact_name == {i \in DOMAIN catalog : Lower(catalog[i].name) = search_lower}
        partial_id == {i \in DOMAIN catalog : IsSubstring(search_lower, Lower(catalog[i].id))}
        partial_name == {i \in DOMAIN catalog :
                            IsSubstring(search_lower, Lower(catalog[i].name))}
    IN  IF catalog = <<>> THEN NoChannel
        ELSE IF exact_id # {} THEN catalog[FirstIndex(exact_id)]
        ELSE IF exact_name # {} THEN catalog[FirstIndex(exact_name)]
        ELSE IF partial_id # {} THEN catalog[FirstIndex(partial_id)]
        ELSE IF partial_name # {} THEN catalog[FirstIndex(partial_name)]
        ELSE NoChannel

Score(term, channel) ==
    LET search_lower == Lower(term)
    IN  (IF IsSubstring(search_lower, Lower(channel.id)) THEN 10 ELSE 0)
      + (IF IsSubstring(search_lower, Lower(channel.name)) THEN 5 ELSE 0)
      + (IF StartsWith(Lower(channel.id), search_lower) THEN 15 ELSE 0)
      + (IF StartsWith(Lower(channel.name), search_lower) THEN 8 ELSE 0)

\* list.sort(key=score, reverse=True): a stable sort, larger scores first.
RECURSIVE InsertByScore(_, _)
InsertByScore(sorted, x) ==
    IF sorted = <<>> THEN <<x>>
    ELSE IF Head(sorted)[2] >= x[2] THEN <<Head(sorted)>> \o InsertByScore(Tail(sorted), x)
    ELSE <<x>> \o sorted
RECURSIVE SortByScore(_)
SortByScore(pairs) ==
    IF pairs = <<>> THEN <<>>
    ELSE InsertByScore(SortByScore(SubSeq(pairs, 1, Len(pairs) - 1)), pairs[Len(pairs)])
SortByScoreAscending(pairs) ==
    LET d == SortByScore(pairs) IN [i \in 1..Len(d) |-> d[Len(d) + 1 - i]]
SortSuggestions(pairs) == SortByScore(pairs)

suggest_channels(term, catalog, limit) ==
    LET scored == SelectSeq([i \in DOMAIN catalog |-> <<catalog[i], Score(term, catalog[i])>>],
                            LAMBDA x : x[2] > 0)
        ranked == SortSuggestions(scored)
        n == IF limit < Len(ranked) THEN limit ELSE Len(ranked)
    IN  IF catalog = <<>> THEN <<>>
        ELSE [i \in 1..n |-> ranked[i][1]]

Channel(i, n) == [id |-> i, name |-> n]
Entries == {
    Channel(<<"S", "X">>, <<"x">>),
    Channel(<<"x">>, <<"s", "x">>),
    Channel(<<"x", "s", "x">>, <<"x">>),
    Channel(<<"s", "x", "x">>, <<"S">>),
    Channel(<<"q">>, <<"x", "S", "X">>),
    Channel(<<"q", "q">>, <<"q">>) }
\* The catalogs: every list of up to MaxCatalog of the entries.
RECURSIVE SeqsUpTo(_, _)
SeqsUpTo(S, n) ==
    IF n = 0 THEN {<<>>}
    ELSE LET shorter == SeqsUpTo(S, n - 1)
         IN shorter \cup {Append(q, x) : q \in {r \in shorter : Len(r) = n - 1}, x \in S}
Catalogs == SeqsUpTo(Entries, MaxCatalog)
SearchTerms == {<<"s", "x">>, <<"S", "X">>, <<"s">>, <<"x">>, <<"x", "s">>, <<>>}

ResolveInit ==
    /\ padYear = TRUE
    /\ channels \in Catalogs
    /\ search_term \in SearchTerms
    /\ suggest_limit \in 0..MaxLimit
    /\ found = NoChannel
    /\ suggestions = <<>>
    /\ rpc = {}
    /\ AdjusterIdle
    /\ CodecIdle
    /\ MainIdle

FindChannel ==
    /\ "find" \notin rpc
    /\ found' = find_channel(search_term, channels)
    /\ rpc' = rpc \cup {"find"}
    /\ UNCHANGED <<padYear, varsAdjuster, varsCodec, varsMain, channels, search_term, suggest_limit,
                   suggestions>>
SuggestChannels ==
    /\ "suggest" \notin rpc
    /\ suggestions' = suggest_channels(search_term, channels, suggest_limit)
    /\ rpc' = rpc \cup {"suggest"}
    /\ UNCHANGED <<padYear, varsAdjuster, varsCodec, varsMain, channels, search_term, suggest_limit, found>>

ResolveNext ==
    \/ FindChannel
    \/ SuggestChannels

SpecResolve == ResolveInit /\ [][ResolveNext]_vars

(***************************************************************************)
(* The channel catalog (scripts/generate_workflow.py): extract_channels.   *)
(***************************************************************************)
\* str.strip(): the text without its leading and trailing white space.
IsSpace(c) == c = " "
RECURSIVE LStrip(_)
LStrip(s) == IF s # <<>> /\ IsSpace(Head(s)) THEN LStrip(Tail(s)) ELSE s
RECURSIVE RStrip(_)
RStrip(s) ==
    IF s # <<>> /\ IsSpace(s[Len(s)]) THEN RStrip(SubSeq(s, 1, Len(s) - 1)) ELSE s
Strip(s) == RStrip(LStrip(s))

\* Python compares strings by code point, character by character.
CodePoint(c) ==
    CASE c = " " -> 32 [] c = "'" -> 39 [] c = "S" -> 83 [] c = "X" -> 88
      [] c = "a" -> 97 [] c = "b" -> 98 [] c = "q" -> 113 [] c = "s" -> 115
      [] c = "x" -> 120 [] c = "z" -> 122
RECURSIVE StrLess(_, _)
StrLess(a, b) ==
    IF b = <<>> THEN FALSE
    ELSE IF a = <<>> THEN TRUE
    ELSE IF Head(a) # Head(b) THEN CodePoint(Head(a)) < CodePoint(Head(b))
    ELSE StrLess(Tail(a), Tail(b))

\* channels.sort(key=lambda x: x['name'].lower()): a stable sort.
RECURSIVE InsertByName(_, _)
InsertByName(sorted, x) ==
    IF sorted = <<>> THEN <<x>>
    ELSE IF StrLess(Lower(x.name), Lower(Head(sorted).name)) THEN <<x>> \o sorted
    ELSE <<Head(sorted)>> \o InsertByName(Tail(sorted), x)
RECURSIVE SortByName(_)
SortByName(list) ==
    IF list = <<>> THEN <<>>
    ELSE InsertByName(SortByName(SubSeq(list, 1, Len(list) - 1)), list[Len(list)])

ChannelName(e) == IF Truthy(e.text) THEN Strip(e.text) ELSE e.id
KeepsElement(e) == Truthy(e.id) /\ e.display_name
extract_channels(elements) ==
    LET kept == SelectSeq(elements, KeepsElement)
    IN SortByName([i \in DOMAIN kept |-> Channel(kept[i].id, ChannelName(kept[i]))])

(***************************************************************************)
(* run.py as a process: main with --channel TERM, main without a channel,  *)
(* and the exit code.  The ScheduleProcessor class that run.py imports is  *)
(* not part of the sources: its get_available_channels is taken to be the  *)
(* catalog extraction above and its process_all_channels to be the         *)
(* adjustment of all channels with the consolidated output file; its       *)
(* process_single_channel is the method of processor.py.                   *)
(***************************************************************************)
ExitCode(success) == IF success THEN 0 ELSE 1
get_available_channels == extract_channels(channel_elements)
MainOperation(op, term, result) ==
    [NoOperation EXCEPT !.op = op, !.specific = term, !.result = result,
                        !.programmes0 = processed_programmes,
                        !.channels0 = processed_channels]

\* ScheduleProcessor.process_all_channels(url, offset, force_download):
\* fetch and parse the source (either may fail, which is fatal), adjust the
\* programmes of all channels with a new adjuster, write the consolidated
\* file, report success.
ProcessAllChannelsBody(failure) ==
    LET r == adjust_times(source, None, channel_offsets, default_offset, padYear)
    IN  /\ runs < MaxRuns
        /\ runs' = runs + 1
        /\ before' = source
        /\ IF failure # "none"
           THEN /\ last' = MainOperation("process_all_channels", None, failure)
                /\ UNCHANGED <<tree, processed_programmes, processed_channels, errors,
                               comment, output>>
           ELSE /\ tree' = r.progs
                /\ processed_programmes' = r.programmes
                /\ processed_channels' = r.channels
                /\ errors' = <<>>
                /\ comment' = [programmes |-> r.programmes]
                /\ output' = [written |-> TRUE, programmes |-> r.progs]
                /\ last' = [MainOperation("process_all_channels", None, "ok")
                               EXCEPT !.programmes0 = 0, !.channels0 = {}]
        /\ UNCHANGED <<padYear, source, channel_offsets, default_offset, stats>>

\* main with --channel term: EPGProcessor.process_channel, then sys.exit.
\* The call at run.py 212-217 passes the channel id, the url and the keywords
\* offset and force_download to a method declared with the channel id alone:
\* either the call is rejected with TypeError, or (accepts) the processor
\* class takes the further arguments and the method body runs.  The method
\* has no return value, so result is None in every case.
RunChannel(term, accepts) ==
    LET catalog == get_available_channels
        channel == find_channel(term, catalog)
        result == None
    IN  /\ exit_code = NoExit
        /\ IF channel = NoChannel
           THEN /\ exit_code' = ExitCode(FALSE)
                /\ last' = MainOperation("process_channel", term, "not found")
                /\ runs' = runs + 1
                /\ UNCHANGED <<padYear, source, tree, before, comment, output,
                               channel_offsets, default_offset, processed_programmes,
                               processed_channels, errors, stats>>
           ELSE IF ~accepts
           THEN /\ exit_code' = ExitCode(FALSE)
                /\ last' = MainOperation("process_channel", channel.id, "TypeError")
                /\ runs' = runs + 1
                /\ UNCHANGED <<padYear, source, tree, before, comment, output,
                               channel_offsets, default_offset, processed_programmes,
                               processed_channels, errors, stats>>
           ELSE /\ ProcessSingleChannelBody(channel.id)
                /\ exit_code' = ExitCode(Truthy(result))
        /\ UNCHANGED <<varsCodec, varsResolve, channel_elements>>

\* main without --channel: EPGProcessor.process_all_channels, then sys.exit.
RunAll(failure) ==
    /\ exit_code = NoExit
    /\ ProcessAllChannelsBody(failure)
    /\ exit_code' = ExitCode(failure = "none")
    /\ UNCHANGED <<varsCodec, varsResolve, channel_elements>>

\* WorkflowGenerator.extract_channels on the document's channel elements.
ExtractChannels ==
    /\ "extract" \notin rpc
    /\ channels' = extract_channels(channel_elements)
    /\ rpc' = rpc \cup {"extract"}
    /\ UNCHANGED <<padYear, varsAdjuster, varsCodec, varsMain, search_term, suggest_limit,
                   found, suggestions>>

ChannelElements == {
    Elem(ChB, TRUE, <<"S">>),
    Elem(ChA, TRUE, <<" ">>),
    Elem(ChQuote, TRUE, None),
    Elem(None, TRUE, <<"x">>),
    Elem(<<"x">>, FALSE, None),
    Elem(<<"q">>, TRUE, <<" ", "s", " ">>) }
\* The guides: every list of up to MaxElems of the channel elements.
ChannelLists == SeqsUpTo(ChannelElements, MaxElems)
MainDocuments == {<<>>, <<Programmes[2]>>, <<Programmes[1], Programmes[2]>>,
                  <<Programmes[6]>>}
MainTerms == {<<"a">>, <<"b">>, <<"z">>}
Failures == {"none", "download", "parse"}

MainInit ==
    /\ padYear = TRUE
    /\ source \in MainDocuments
    /\ tree = source
    /\ before = source
    /\ comment = NoComment
    /\ output = NoOutput
    /\ channel_offsets = OffsetsAB
    /\ default_offset = 30
    /\ processed_programmes = 0
    /\ processed_channels = {}
    /\ errors = <<>>
    /\ stats = NoStats
    /\ last = NoOperation
    /\ runs = 0
    /\ channel_elements \in ChannelLists
    /\ exit_code = NoExit
    /\ CodecIdle
    /\ ResolveIdle

MainNext ==
    \/ \E t \in MainTerms, accepts \in BOOLEAN : RunChannel(t, accepts)
    \/ \E f \in Failures : RunAll(f)
    \/ ExtractChannels

SpecMain == MainInit /\ [][MainNext]_vars

(***************************************************************************)
(* Properties of the timestamp codec.                                      *)
(***************************************************************************)
Valid14(t) == Len(BeforeSpace(t)) = 14 /\ Parses(t)

\* C7: shifting by o and then by -o gives the timestamp back, and adjusting
\* an attribute by o and then by -o restores the instant it stood for.
C7_ShiftThenUnshift ==
    /\ pc = "shifted" => Shift(adjusted_dt, -offset_seconds) = dt
    /\ (pc = "back" /\ Parses(time_str)) => parse_datetime(attr) = parse_datetime(time_str)

\* C8: for a valid 14-digit timestamp t and an offset o, the text written for
\* the shifted timestamp parses back to the shifted timestamp.
C8_RoundTrip ==
    (pc = "reparsed" /\ Valid14(time_str)) => reparsed = adjusted_dt

(***************************************************************************)
(* Properties of the channel search.                                       *)
(***************************************************************************)
Tier(k, e, term) ==
    CASE k = 1 -> Lower(e.id) = Lower(term)
      [] k = 2 -> Lower(e.name) = Lower(term)
      [] k = 3 -> IsSubstring(Lower(term), Lower(e.id))
      [] k = 4 -> IsSubstring(Lower(term), Lower(e.name))
TiersHit == {k \in 1..4 : \E i \in DOMAIN channels : Tier(k, channels[i], search_term)}
ClaimResolve ==
    IF TiersHit = {} THEN NoChannel
    ELSE LET k == CHOOSE x \in TiersHit : \A y \in TiersHit : x <= y
         IN channels[FirstIndex({i \in DOMAIN channels : Tier(k, channels[i], search_term)})]

\* C5: find_channel returns the first catalog entry, in catalog order, of the
\* earliest of the four tiers that any entry satisfies, and no entry only
\* when no entry satisfies any tier.
C5_ResolveTiers ==
    "find" \in rpc =>
        /\ found = ClaimResolve
        /\ found = NoChannel <=> TiersHit = {}
C5_Witness ==
    /\ "find" \in rpc
    /\ found # NoChannel
    /\ Lower(found.id) = Lower(search_term)
    /\ \E j \in DOMAIN channels :
          /\ j < FirstIndex({i \in DOMAIN channels : channels[i] = found})
          /\ \E k \in 2..4 : Tier(k, channels[j], search_term)

ClaimScore(e, term) ==
    10 * (IF IsSubstring(Lower(term), Lower(e.id)) THEN 1 ELSE 0)
    + 5 * (IF IsSubstring(Lower(term), Lower(e.name)) THEN 1 ELSE 0)
    + 15 * (IF StartsWith(Lower(e.id), Lower(term)) THEN 1 ELSE 0)
    + 8 * (IF StartsWith(Lower(e.name), Lower(term)) THEN 1 ELSE 0)
Positive == {i \in DOMAIN channels : ClaimScore(channels[i], search_term) > 0}
Outranks(j, i) ==
    \/ ClaimScore(channels[j], search_term) > ClaimScore(channels[i], search_term)
    \/ /\ ClaimScore(channels[j], search_term) = ClaimScore(channels[i], search_term)
       /\ j < i
Rank(i) == Cardinality({j \in Positive : Outranks(j, i)})
ClaimSuggestions ==
    [k \in 1..(IF suggest_limit < Cardinality(Positive) THEN suggest_limit
               ELSE Cardinality(Positive))
        |-> channels[CHOOSE i \in Positive : Rank(i) = k - 1]]
IdPrefix(i) == StartsWith(Lower(channels[i].id), Lower(search_term))
OnlyInside(i) ==
    /\ i \in Positive
    /\ ~StartsWith(Lower(channels[i].id), Lower(search_term))
    /\ ~StartsWith(Lower(channels[i].name), Lower(search_term))

\* C6: suggest_channels returns the channels of positive score (10 for the
\* term inside the id, 5 inside the name, 15 for the id starting with it, 8
\* for the name starting with it), larger scores first, equal scores in
\* catalog order, at most limit of them; a channel whose id starts with the
\* term ranks above one that only has the term inside its id or name.
C6_SuggestRanking ==
    "suggest" \in rpc =>
        /\ suggestions = ClaimSuggestions
        /\ Len(suggestions) <= suggest_limit
        /\ \A i, j \in DOMAIN channels :
              (IdPrefix(i) /\ OnlyInside(j)) => Rank(i) < Rank(j)
C6_Witness ==
    /\ "suggest" \in rpc
    /\ Len(suggestions) = 2
    /\ Cardinality(Positive) > 2
    /\ \E i, j \in DOMAIN channels :
          /\ j < i
          /\ IdPrefix(i) /\ OnlyInside(j)
          /\ suggestions[1] = channels[i]
          /\ suggestions[2] = channels[j]

(***************************************************************************)
(* Properties of the run as a process.                                     *)
(***************************************************************************)
Completed == last.result = "ok" /\ output.written
Failed == last.result \in {"not found", "TypeError", "SyntaxError", "download", "parse"}

Listed == {i \in DOMAIN channel_elements :
              channel_elements[i].id # None /\ channel_elements[i].display_name}
EntriesOf(id) == Cardinality({k \in DOMAIN channels : channels[k].id = id})
ElementsOf(id) == Cardinality({i \in Listed : channel_elements[i].id = id})

\* C15: the catalog has exactly one entry per channel element that has an id
\* and a display name, every entry has a non-empty name, and the entries are
\* in case-insensitive order of name.
C15_CatalogEntries ==
    "extract" \in rpc =>
        /\ Len(channels) = Cardinality(Listed)
        /\ \A i \in Listed : EntriesOf(channel_elements[i].id) = ElementsOf(channel_elements[i].id)
        /\ \A k \in DOMAIN channels : channels[k].name # <<>>
        /\ \A k \in 1..(Len(channels) - 1) :
              ~StrLess(Lower(channels[k + 1].name), Lower(channels[k].name))

(***************************************************************************)
(* Properties relating the channel search and the suggestions.             *)
(***************************************************************************)
\* C17: whenever find_channel finds no channel for a term in a catalog,
\* suggest_channels for the same term and catalog returns no suggestion.
C17_NotFoundNoSuggestions ==
    ({"find", "suggest"} \subseteq rpc /\ found = NoChannel) => suggestions = <<>>
C17_Witness ==
    /\ {"find", "suggest"} \subseteq rpc
    /\ found = NoChannel
    /\ suggestions = <<>>
    /\ Len(channels) = MaxCatalog
    /\ suggest_limit > 0
    /\ search_term # <<>>
    /\ \E i \in DOMAIN channels : \E k \in 1..Len(search_term) :
          Contains(Lower(channels[i].id), Lower(search_term)[k])
====
